---- MODULE Spec2Model ----
(***************************************************************************)
(* The resumable SharePoint -> AstraDB ingestion pipeline:                 *)
(*   SharePointHandler        (share_point_handler.py)                     *)
(*   AstraDBHandler           (astra_db_handler.py)                        *)
(*   process_all_sharepoint_files_by_site_name, main                       *)
(*                            (sharepoint_integration.py)                  *)
(* The orchestrator is a sequential process; pc is its position.  The      *)
(* remote site, the identity provider, the text extractor and the vector   *)
(* store are the environment: their answers are chosen with \E.            *)
(***************************************************************************)
EXTENDS Integers, Sequences, FiniteSets, TLC

\* ------------------------------------------------------------------ bounds
\* processes (runs of main) started one after the other on the same files
MaxRuns == 2
\* content requests of one get_item_content call that the model counts
MaxRequests == 4
\* transient (non-200, non-403) answers of a responsive server, per execution
MaxFaults == 1
\* token expiries (time passing an expiry date), per execution
MaxExpiries == 1
\* lines a caller of the handler writes to a checkpoint log by hand
MaxLogLines == 2

\* ------------------------------------------------------------- Python values
None == "None"
EmptyText == ""
Text == "text"
DryRunContent == "This is a simulated content for dry run."
\* a file on disk: whether os.path.exists(file), and its lines
File(ls) == [exists |-> TRUE, lines |-> ls]
NoFile == [exists |-> FALSE, lines |-> << >>]

Min(a, b) == IF a < b THEN a ELSE b

\* seq[:n if n > 0 else len(seq)]
Truncate(seq, n) == IF n > 0 THEN SubSeq(seq, 1, Min(n, Len(seq))) ELSE seq

\* ------------------------------------------------------- program constants
\* a whitelist that also names the compliance library
drive_white_list_wider == {"SBX - Bid Respository", "SBX - ISO Compliance Records"}

drive_white_list == {"SBX - Bid Respository"}

white_list_file_extensions ==
    {".csv", ".doc", ".docx", ".eml", ".epub", ".json", ".html", ".msg", ".odt",
     ".ogg", ".pdf", ".pptx", ".ps", ".rtf", ".tiff", ".txt", ".xlsx", ".xls"}

DefaultMaxRetries == 3

\* AstraDBHandler.__init__: max_retries, which initialize_handlers never passes
AstraMaxRetries == 3

\* ------------------------------------------------------- the remote site
\* The drives of the site, by id.  Graph returns each drive's display name;
\* the code never requires names to be unique.
DriveIds == {"d1", "d2", "d3", "d4", "d5"}

DriveNameOf(d) ==
    IF d = "d3" THEN "SBX - ISO Compliance Records" ELSE "SBX - Bid Respository"

RemoteDrive(d) == [id |-> d, name |-> DriveNameOf(d)]

\* rank of a drive name in Python's string order
NameRank(n) == IF n = "SBX - Bid Respository" THEN 1 ELSE 2

\* a child as Graph lists it: 'folder' in item <=> folder = TRUE
RemoteItem(i, n, f) == [id |-> i, name |-> n, folder |-> f]

\* the pages of children of a folder (item_id = None: the drive root)
RemotePages(drive_id, item_id) ==
    CASE drive_id = "d1" /\ item_id = None ->
            << << RemoteItem("F1", "F", TRUE), RemoteItem("D1", "report.pdf", FALSE) >>,
               << RemoteItem("D3", "notes.txt", FALSE), RemoteItem("P1", "pic.png", FALSE) >> >>
      [] drive_id = "d1" /\ item_id = "F1" ->
            << << RemoteItem("D2", "doc.docx", FALSE) >> >>
      [] drive_id = "d2" /\ item_id = None ->
            << << RemoteItem("E1", "bid.docx", FALSE) >> >>
      [] drive_id = "d3" /\ item_id = None ->
            << << RemoteItem("G1", "iso.pdf", FALSE) >> >>
      [] drive_id = "d4" /\ item_id = None ->
            << << RemoteItem("H1", "plan.txt", FALSE) >> >>
      [] drive_id = "d5" /\ item_id = None ->
            << << RemoteItem("A1", "a1.txt", FALSE) >>,
               << RemoteItem("A2", "a2.txt", FALSE) >>,
               << RemoteItem("A3", "a3.txt", FALSE) >>,
               << RemoteItem("A4", "a4.txt", FALSE) >> >>
      [] OTHER -> << << >> >>

ItemIds == {"F1", "D1", "D2", "D3", "P1", "E1", "G1", "H1", "A1", "A2", "A3", "A4"}

\* os.path.splitext(name)[1]
Splitext(name) ==
    CASE name = "report.pdf" -> ".pdf"
      [] name = "notes.txt" -> ".txt"
      [] name = "pic.png" -> ".png"
      [] name = "doc.docx" -> ".docx"
      [] name = "bid.docx" -> ".docx"
      [] name = "iso.pdf" -> ".pdf"
      [] name = "plan.txt" -> ".txt"
      [] name \in {"a1.txt", "a2.txt", "a3.txt", "a4.txt"} -> ".txt"
      [] OTHER -> ""

\* the chunks the splitter makes of an item's text, tagged with metadata id
NumChunks(id) == IF id = "D1" THEN 2 ELSE 1
Chunks(id) == [k \in 1..NumChunks(id) |-> <<id, k>>]

\* the drive listings a site may return: one or two of its drives, in any order
ListingLengths == {1, 2}
ListingsOf(ids) ==
    { s \in UNION { [1..n -> ids] : n \in ListingLengths } :
        \A i, j \in DOMAIN s : i # j => s[i] # s[j] }

\* a site with a deep library, and a site of small libraries
Listings == ListingsOf({"d1", "d2", "d3"})
ResumeListings == ListingsOf({"d2", "d3", "d4"})

\* ----------------------------------------------------------------- state
VARIABLES
    \* configuration of the run (CLI arguments, handler construction)
    dry_run, max_retries, max_drives, max_items, bulk_item_count, listing,
    \* the module's drive_white_list setting
    white_list_drives,
    \* SharePointHandler fields
    api_call_count, token_user, token_admin,
    \* the checkpoint files on disk and the vector store
    processed_items_file, processed_drives_file, error_items_file, vstore,
    \* process_all_sharepoint_files_by_site_name: position and locals
    pc, drives_to_process, drive_idx, items_to_process, item_idx, content,
    combined_chunks, inserted_db_document_count, inserted_item_count,
    total_processed_items,
    \* get_items_in_item_recursive: the call stack and the accumulated list
    stack, items_list,
    \* get_item_content: loop counter, the answer in flight
    retry_count, resp,
    \* environment: server behaviour for the item being fetched, budgets
    srv, faults, expiries,
    \* history: run number, requests and error records of the current fetch and
    \* how it ended, what this run requested and flushed, whether the current
    \* item saw a flush, the items log the previous run left
    run, fetch_requests, fetch_errors, outcome, downloaded, ingested, item_flushed,
    prev_items_log,
    \* history: the store writes and the sleeps of the flush at the current item
    ingest_attempts, ingest_sleeps
    ,
    \* main: the SECURE mode, whether save_temp_files_to_azure_storage was called
    secure, temp_files_saved,
    \* the working directory: the names of the items staged there
    staged_files

cfgVars == <<dry_run, max_retries, max_drives, max_items, bulk_item_count, listing,
             white_list_drives>>
tokenVars == <<token_user, token_admin>>
fileVars == <<processed_items_file, processed_drives_file, error_items_file>>
loopVars == <<drives_to_process, drive_idx, items_to_process, item_idx>>
countVars == <<inserted_db_document_count, inserted_item_count, total_processed_items>>
enumVars == <<stack, items_list>>
fetchVars == <<retry_count, resp, srv, fetch_requests, fetch_errors, outcome>>
ingestVars == <<ingest_attempts, ingest_sleeps>>
mainVars == <<secure, temp_files_saved>>
histVars == <<run, downloaded, ingested, item_flushed, prev_items_log, ingestVars>>

vars == <<cfgVars, api_call_count, tokenVars, fileVars, vstore, pc, loopVars, content,
          combined_chunks, countVars, enumVars, fetchVars, faults, expiries, histVars,
          mainVars, staged_files>>

\* ------------------------------------------------------- checkpoint files
Lines(file) == file.lines

\* has_been_processed as it would be if the log were never read
has_been_processed_unread(file, item_id) == FALSE

\* has_been_processed as it would be if it compared the last line only
has_been_processed_last_line(file, item_id) ==
    /\ file.exists
    /\ Len(file.lines) > 0
    /\ file.lines[Len(file.lines)] = item_id

\* has_been_processed as it would be if an id with an error record counted
\* as processed too
has_been_processed_or_errored(file, item_id) ==
    \/ file.exists /\ \E k \in 1..Len(file.lines) : file.lines[k] = item_id
    \/ \E k \in 1..Len(error_items_file.lines) : error_items_file.lines[k] = item_id

\* SharePointHandler.has_been_processed
has_been_processed(file, item_id) ==
    IF ~file.exists THEN FALSE
    ELSE \E k \in 1..Len(file.lines) : file.lines[k] = item_id

\* SharePointHandler.mark_item_as_processed: the file after the call
mark_item_as_processed(file, item_id) == File(Append(Lines(file), item_id))

\* SharePointHandler.mark_item_as_error: the file after the call
mark_item_as_error(file, item) == File(Append(Lines(file), item))

\* SharePointHandler.clear_processed_items_record: the file after the call
clear_processed_items_record(file) == NoFile

\* --------------------------------------------------------------- tokens
\* A token is "none" (never issued, expiry datetime.min), "valid" (now < expiry)
\* or "expired" (now >= expiry).
TokenStates == {"none", "valid", "expired"}

\* datetime.datetime.now() >= self.token_*_expiry
TokenExpired(tok) == tok # "valid"

\* check_token as it would be without its dry-run return
check_token_live(dry, tu, ta, uok, aok) ==
    LET needU == TokenExpired(tu)
        failU == needU /\ ~uok
        needA == ~failU /\ TokenExpired(ta)
        failA == needA /\ ~aok
    IN  [user |-> IF needU /\ uok THEN "valid" ELSE tu,
         admin |-> IF needA /\ aok THEN "valid" ELSE ta,
         calls |-> (IF needU THEN 1 ELSE 0) + (IF needA THEN 1 ELSE 0),
         raised |-> failU \/ failA]

\* check_token as it would be if it looked at the delegated token only
check_token_user_only(dry, tu, ta, uok, aok) ==
    IF dry THEN [user |-> tu, admin |-> ta, calls |-> 0, raised |-> FALSE]
    ELSE LET needU == TokenExpired(tu)
         IN  [user |-> IF needU /\ uok THEN "valid" ELSE tu,
              admin |-> ta,
              calls |-> IF needU THEN 1 ELSE 0,
              raised |-> needU /\ ~uok]

\* check_token as it would be if a refused exchange were only logged
check_token_lenient(dry, tu, ta, uok, aok) ==
    IF dry THEN [user |-> tu, admin |-> ta, calls |-> 0, raised |-> FALSE]
    ELSE LET needU == TokenExpired(tu)
             needA == TokenExpired(ta)
         IN  [user |-> IF needU /\ uok THEN "valid" ELSE tu,
              admin |-> IF needA /\ aok THEN "valid" ELSE ta,
              calls |-> (IF needU THEN 1 ELSE 0) + (IF needA THEN 1 ELSE 0),
              raised |-> FALSE]

\* SharePointHandler.check_token with the identity provider answering uok to
\* the password exchange and aok to the client-credentials exchange:
\* the tokens afterwards, the requests made, whether it raised
check_token(dry, tu, ta, uok, aok) ==
    IF dry THEN [user |-> tu, admin |-> ta, calls |-> 0, raised |-> FALSE]
    ELSE LET needU == TokenExpired(tu)
             failU == needU /\ ~uok
             needA == ~failU /\ TokenExpired(ta)
             failA == needA /\ ~aok
         IN  [user |-> IF needU /\ uok THEN "valid" ELSE tu,
              admin |-> IF needA /\ aok THEN "valid" ELSE ta,
              calls |-> (IF needU THEN 1 ELSE 0) + (IF needA THEN 1 ELSE 0),
              raised |-> failU \/ failA]

\* ------------------------------------------------------------ item details
RootPath == << "/" >>

\* _extract_item_details without the special case of the root path
extract_item_details_always_joined(item, drive_id, drive_name, path) ==
    [id |-> item.id,
     name |-> item.name,
     drive_id |-> drive_id,
     drive_name |-> drive_name,
     path |-> path \o << "/", item.name >>,
     is_folder |-> item.folder,
     extension |-> IF item.folder THEN "<absent>" ELSE Splitext(item.name)]

\* SharePointHandler._extract_item_details
extract_item_details(item, drive_id, drive_name, path) ==
    [id |-> item.id,
     name |-> item.name,
     drive_id |-> drive_id,
     drive_name |-> drive_name,
     path |-> IF path # RootPath THEN path \o << "/", item.name >>
              ELSE << "/", item.name >>,
     is_folder |-> item.folder,
     extension |-> IF item.folder THEN "<absent>" ELSE Splitext(item.name)]

\* an orchestrator that filtered nothing out
Whitelisted_any(d) == TRUE

\* lambda d: not d['is_folder'] and d['extension'] in white_list_file_extensions
Whitelisted(d) == ~d.is_folder /\ d.extension \in white_list_file_extensions

\* the items the dry run pretends to find
DryRunItems(drive_id) ==
    << [id |-> "01CAE3RJCO7FOOGHJ5U5B2IA2IZ27HC2U7", name |-> "Associate Contractor Forms",
        drive_id |-> drive_id, drive_name |-> "SBX - ISO Compliance Records",
        path |-> << "/", "Forms and Templates", "/", "Associate Contractor Forms" >>,
        is_folder |-> TRUE, extension |-> None],
       [id |-> "01CAE3RJCCYTIWX7N3SVG3SKHAKG5YR5UG",
        name |-> "01. Associate CFSA (Deliv) TEMPLATE. March 2022.docx",
        drive_id |-> drive_id, drive_name |-> "SBX - ISO Compliance Records",
        path |-> << "/", "Forms and Templates", "/", "Associate Contractor Forms", "/",
                    "01. Associate CFSA (Deliv) TEMPLATE. March 2022.docx" >>,
        is_folder |-> FALSE, extension |-> ".docx"] >>

\* the drive the dry run pretends to find
DryRunDrives ==
    << [id |-> "b!JKtC0CKWM0SRj1bUjUALHiMYZe4rxwVCrzSv8Nr5v1o70sHOvnnrS5zeBpmo9GBF",
        name |-> "SBX - ISO Compliance Records"] >>

\* sorted(drives, key=lambda x: x['name']): a stable sort
InsertByName(x, s) ==
    LET c == Cardinality({k \in 1..Len(s) : NameRank(s[k].name) <= NameRank(x.name)})
    IN  SubSeq(s, 1, c) \o << x >> \o SubSeq(s, c + 1, Len(s))

RECURSIVE SortedByName(_)
SortedByName(s) ==
    IF s = << >> THEN << >>
    ELSE InsertByName(s[Len(s)], SortedByName(SubSeq(s, 1, Len(s) - 1)))

\* ------------------------------------------------------------------- Init
MaxDrivesChoices == {-1, 1}
MaxItemsChoices == {-1, 2}
BulkItemCounts == {1, 2}
MaxRetriesChoices == {1, DefaultMaxRetries}

\* the in-memory state of a process that has just started
FreshProcess ==
    /\ api_call_count = 0
    /\ token_user = "none"
    /\ token_admin = "none"
    /\ pc = "start"
    /\ drives_to_process = << >>
    /\ drive_idx = 0
    /\ items_to_process = << >>
    /\ item_idx = 0
    /\ content = None
    /\ combined_chunks = << >>
    /\ inserted_db_document_count = 0
    /\ inserted_item_count = 0
    /\ total_processed_items = 0
    /\ stack = << >>
    /\ items_list = << >>
    /\ retry_count = 0
    /\ resp = None
    /\ srv = None
    /\ fetch_requests = 0
    /\ fetch_errors = 0
    /\ outcome = None
    /\ downloaded = {}
    /\ ingested = {}
    /\ item_flushed = FALSE
    /\ ingest_attempts = 0
    /\ ingest_sleeps = 0

\* the first run: no checkpoint file exists, the store is empty
FirstRun ==
    /\ processed_items_file = NoFile
    /\ processed_drives_file = NoFile
    /\ error_items_file = NoFile
    /\ vstore = {}
    /\ run = 1
    /\ prev_items_log = << >>
    /\ staged_files = {}
    /\ temp_files_saved = FALSE
    /\ FreshProcess

\* one run of main, for every configuration
Init ==
    /\ dry_run \in BOOLEAN
    /\ max_retries \in MaxRetriesChoices
    /\ max_drives \in MaxDrivesChoices
    /\ max_items \in MaxItemsChoices
    /\ bulk_item_count \in BulkItemCounts
    /\ listing \in Listings
    /\ white_list_drives = drive_white_list
    /\ faults = 0
    /\ expiries = 0
    /\ secure = FALSE
    /\ FirstRun

\* successive runs of main on the same files: no cap, a server that answers
\* every request for good (200, 403) or fails for good, tokens that last
InitResume ==
    /\ dry_run = FALSE
    /\ max_retries \in MaxRetriesChoices
    /\ max_drives = -1
    /\ max_items = -1
    /\ bulk_item_count \in BulkItemCounts
    /\ listing \in ResumeListings
    /\ white_list_drives = drive_white_list
    /\ faults = MaxFaults
    /\ expiries = MaxExpiries
    /\ secure = FALSE
    /\ FirstRun

\* an orchestrator that swallowed every exception and returned normally
Raise_swallowed == pc' = "done"

\* an exception leaves process_all_sharepoint_files_by_site_name
Raise == pc' = "aborted"

Running == pc \notin {"done", "aborted", "killed"}

\* ------------------------------------------- orchestrator: authentication
\* line 86: init_auth_token_with_username_password
InitAuthUser ==
    /\ pc = "start"
    /\ \E ok \in BOOLEAN :
         IF dry_run
         THEN /\ pc' = "site"
              /\ UNCHANGED <<api_call_count, token_user>>
         ELSE /\ api_call_count' = api_call_count + 1
              /\ IF ok THEN token_user' = "valid" /\ pc' = "site"
                       ELSE UNCHANGED token_user /\ Raise
    /\ UNCHANGED <<cfgVars, mainVars, staged_files, token_admin, fileVars, vstore, loopVars, content,
                   combined_chunks, countVars, enumVars, fetchVars, faults, expiries,
                   histVars>>

\* line 88: get_site_id_by_site_name
GetSiteId ==
    /\ pc = "site"
    /\ \E uok, aok, ok \in BOOLEAN :
         LET ct == check_token(dry_run, token_user, token_admin, uok, aok) IN
         /\ token_user' = ct.user
         /\ token_admin' = ct.admin
         /\ IF ct.raised
            THEN api_call_count' = api_call_count + ct.calls /\ Raise
            ELSE IF dry_run
            THEN UNCHANGED api_call_count /\ pc' = "drives"
            ELSE /\ api_call_count' = api_call_count + ct.calls + 1
                 /\ IF ok THEN pc' = "drives" ELSE Raise
    /\ UNCHANGED <<cfgVars, mainVars, staged_files, fileVars, vstore, loopVars, content,
                   combined_chunks, countVars, enumVars, fetchVars, faults, expiries,
                   histVars>>

\* lines 91-98: get_drives_by_site_id, the truncation and the sort
GetDrives ==
    /\ pc = "drives"
    /\ \E uok, aok, ok \in BOOLEAN :
         LET ct == check_token(dry_run, token_user, token_admin, uok, aok)
             drives == IF dry_run THEN DryRunDrives
                       ELSE [i \in DOMAIN listing |-> RemoteDrive(listing[i])]
             sorted == SortedByName(Truncate(drives, max_drives))
         IN
         /\ token_user' = ct.user
         /\ token_admin' = ct.admin
         /\ IF ct.raised
            THEN /\ api_call_count' = api_call_count + ct.calls
                 /\ Raise
                 /\ UNCHANGED <<drives_to_process, drive_idx>>
            ELSE IF ~dry_run /\ ~ok
            THEN /\ api_call_count' = api_call_count + ct.calls + 1
                 /\ Raise
                 /\ UNCHANGED <<drives_to_process, drive_idx>>
            ELSE /\ api_call_count' = api_call_count + ct.calls + (IF dry_run THEN 0 ELSE 1)
                 /\ drives_to_process' = sorted
                 /\ drive_idx' = 1
                 /\ pc' = "drive"
    /\ UNCHANGED <<cfgVars, mainVars, staged_files, fileVars, vstore, items_to_process, item_idx, content,
                   combined_chunks, countVars, enumVars, fetchVars, faults, expiries,
                   histVars>>

\* ------------------------------------------------ orchestrator: drive loop
CurrentDrive == drives_to_process[drive_idx]

\* a call frame of get_items_in_item_recursive at its entry
CallFrame(drive_id, item_id, drive_name, path, cap) ==
    [drive_id |-> drive_id, item_id |-> item_id, drive_name |-> drive_name,
     path |-> path, max_items |-> cap, phase |-> "call", page |-> 0, idx |-> 0]

\* lines 100-107: a drive whose name is not in drive_white_list: continue
SkipDrive ==
    /\ pc = "drive"
    /\ drive_idx <= Len(drives_to_process)
    /\ CurrentDrive.name \notin white_list_drives
    /\ drive_idx' = drive_idx + 1
    /\ UNCHANGED <<cfgVars, mainVars, staged_files, api_call_count, tokenVars, fileVars, vstore, pc,
                   drives_to_process, items_to_process, item_idx, content,
                   combined_chunks, countVars, enumVars, fetchVars, faults, expiries,
                   histVars>>

\* lines 100-111: a whitelisted drive: call get_items_in_item_recursive
EnterDrive ==
    /\ pc = "drive"
    /\ drive_idx <= Len(drives_to_process)
    /\ CurrentDrive.name \in white_list_drives
    /\ stack' = << CallFrame(CurrentDrive.id, None, CurrentDrive.name, RootPath, max_items) >>
    /\ items_list' = << >>
    /\ pc' = "enum"
    /\ UNCHANGED <<cfgVars, mainVars, staged_files, api_call_count, tokenVars, fileVars, vstore, loopVars, content,
                   combined_chunks, countVars, fetchVars, faults, expiries, histVars>>

\* lines 165-167: the loop over the drives is over
Report ==
    /\ pc = "drive"
    /\ drive_idx > Len(drives_to_process)
    /\ pc' = "done"
    /\ UNCHANGED <<cfgVars, mainVars, staged_files, api_call_count, tokenVars, fileVars, vstore, loopVars, content,
                   combined_chunks, countVars, enumVars, fetchVars, faults, expiries,
                   histVars>>

\* --------------------------------------------- get_items_in_item_recursive
Top == stack[Len(stack)]
Pop == SubSeq(stack, 1, Len(stack) - 1)
SetTop(f) == [stack EXCEPT ![Len(stack)] = f]

\* lines 340-344: the soft cap
CapExceeded(list, cap) ==
    cap > 0 /\ Cardinality({k \in 1..Len(list) : Whitelisted(list[k])}) > cap

\* lines 292-351: the entry of a call, up to the first url
EnumCall ==
    /\ pc = "enum"
    /\ stack # << >>
    /\ Top.phase = "call"
    /\ \E uok, aok \in BOOLEAN :
         LET f == Top
             ct == check_token(dry_run, token_user, token_admin, uok, aok)
         IN
         IF has_been_processed(processed_drives_file, f.drive_id)
         THEN /\ stack' = Pop
              /\ UNCHANGED <<items_list, api_call_count, tokenVars, pc>>
         ELSE IF has_been_processed(processed_items_file, f.item_id)
         THEN /\ stack' = Pop
              /\ UNCHANGED <<items_list, api_call_count, tokenVars, pc>>
         ELSE /\ token_user' = ct.user
              /\ token_admin' = ct.admin
              /\ api_call_count' = api_call_count + ct.calls
              /\ IF ct.raised
                 THEN Raise /\ UNCHANGED <<stack, items_list>>
                 ELSE IF dry_run
                 THEN /\ items_list' = items_list \o DryRunItems(f.drive_id)
                      /\ stack' = Pop
                      /\ UNCHANGED pc
                 ELSE IF CapExceeded(items_list, f.max_items)
                 THEN /\ stack' = Pop
                      /\ UNCHANGED <<items_list, pc>>
                 ELSE /\ stack' = SetTop([f EXCEPT !.phase = "request", !.page = 1])
                      /\ UNCHANGED <<items_list, pc>>
    /\ UNCHANGED <<cfgVars, mainVars, staged_files, fileVars, vstore, loopVars, content, combined_chunks,
                   countVars, fetchVars, faults, expiries, histVars>>

\* lines 353-358, 367-368: one page request and its status
EnumRequest ==
    /\ pc = "enum"
    /\ stack # << >>
    /\ Top.phase = "request"
    /\ api_call_count' = api_call_count + 1
    /\ \E ok \in BOOLEAN :
         IF ok THEN /\ stack' = SetTop([Top EXCEPT !.phase = "iterate", !.idx = 1])
                    /\ UNCHANGED pc
               ELSE Raise /\ UNCHANGED stack
    /\ UNCHANGED <<cfgVars, mainVars, staged_files, tokenVars, fileVars, vstore, loopVars, content,
                   combined_chunks, countVars, items_list, fetchVars, faults, expiries,
                   histVars>>

\* a listing that never followed a continuation reference
EnumIterate_first_page_only ==
    /\ pc = "enum"
    /\ stack # << >>
    /\ Top.phase = "iterate"
    /\ LET f == Top
           pages == RemotePages(f.drive_id, f.item_id)
           items_data == pages[f.page]
       IN
       IF f.idx <= Len(items_data)
       THEN LET item == items_data[f.idx]
                item_details == extract_item_details(item, f.drive_id, f.drive_name, f.path)
                after == [f EXCEPT !.idx = f.idx + 1]
            IN  IF item_details.is_folder
                THEN /\ items_list' = items_list \o << item_details, item_details >>
                     /\ stack' = Append(SetTop(after),
                                        CallFrame(f.drive_id, item.id, f.drive_name,
                                                  item_details.path, f.max_items))
                ELSE /\ items_list' = Append(items_list, item_details)
                     /\ stack' = SetTop(after)
       ELSE /\ UNCHANGED items_list
            /\ IF FALSE
               THEN stack' = SetTop([f EXCEPT !.phase = "request", !.page = f.page + 1])
               ELSE stack' = Pop
    /\ UNCHANGED <<cfgVars, mainVars, staged_files, api_call_count, tokenVars, fileVars, vstore, pc, loopVars,
                   content, combined_chunks, countVars, fetchVars, faults, expiries,
                   histVars>>

\* lines 359-366, 370: one child of the page, or the page's end
EnumIterate ==
    /\ pc = "enum"
    /\ stack # << >>
    /\ Top.phase = "iterate"
    /\ LET f == Top
           pages == RemotePages(f.drive_id, f.item_id)
           items_data == pages[f.page]
       IN
       IF f.idx <= Len(items_data)
       THEN LET item == items_data[f.idx]
                item_details == extract_item_details(item, f.drive_id, f.drive_name, f.path)
                after == [f EXCEPT !.idx = f.idx + 1]
            IN  IF item_details.is_folder
                THEN /\ items_list' = items_list \o << item_details, item_details >>
                     /\ stack' = Append(SetTop(after),
                                        CallFrame(f.drive_id, item.id, f.drive_name,
                                                  item_details.path, f.max_items))
                ELSE /\ items_list' = Append(items_list, item_details)
                     /\ stack' = SetTop(after)
       ELSE /\ UNCHANGED items_list
            /\ IF f.page < Len(pages)
               THEN stack' = SetTop([f EXCEPT !.phase = "request", !.page = f.page + 1])
               ELSE stack' = Pop
    /\ UNCHANGED <<cfgVars, mainVars, staged_files, api_call_count, tokenVars, fileVars, vstore, pc, loopVars,
                   content, combined_chunks, countVars, fetchVars, faults, expiries,
                   histVars>>

\* lines 113-120: the outermost call has returned: filter and truncate
FilterItems ==
    /\ pc = "enum"
    /\ stack = << >>
    /\ items_to_process' = Truncate(SelectSeq(items_list, Whitelisted), max_items)
    /\ item_idx' = 1
    /\ pc' = "item"
    /\ UNCHANGED <<cfgVars, mainVars, staged_files, api_call_count, tokenVars, fileVars, vstore,
                   drives_to_process, drive_idx, content, combined_chunks, countVars,
                   enumVars, fetchVars, faults, expiries, histVars>>

\* -------------------------------------------------------- get_item_content
CurrentItem == items_to_process[item_idx]

\* str(item_error_details): the record written to the error log
ErrorRecord(item) == item.id

\* lines 122-127, 392-406: the next item; get_item_content up to its loop
GetItemContentEnter ==
    /\ pc = "item"
    /\ item_idx <= Len(items_to_process)
    /\ item_flushed' = FALSE
    /\ ingest_attempts' = 0
    /\ ingest_sleeps' = 0
    /\ \E uok, aok \in BOOLEAN, mode \in {"up", "down"} :
         LET ct == check_token(dry_run, token_user, token_admin, uok, aok) IN
         IF has_been_processed(processed_items_file, CurrentItem.id)
         THEN /\ content' = None
              /\ outcome' = "Skipped"
              /\ pc' = "after_fetch"
              /\ UNCHANGED <<api_call_count, tokenVars, retry_count, resp, srv,
                             fetch_requests, fetch_errors>>
         ELSE /\ token_user' = ct.user
              /\ token_admin' = ct.admin
              /\ api_call_count' = api_call_count + ct.calls
              /\ IF ct.raised
                 THEN Raise /\ UNCHANGED <<content, fetchVars>>
                 ELSE IF dry_run
                 THEN /\ content' = DryRunContent
                      /\ outcome' = "DryRun"
                      /\ pc' = "after_fetch"
                      /\ UNCHANGED <<retry_count, resp, srv, fetch_requests, fetch_errors>>
                 ELSE /\ retry_count' = 0
                      /\ srv' = mode
                      /\ fetch_requests' = 0
                      /\ fetch_errors' = 0
                      /\ outcome' = None
                      /\ pc' = "attempt"
                      /\ UNCHANGED <<content, resp>>
    /\ UNCHANGED <<cfgVars, mainVars, staged_files, fileVars, vstore, loopVars, combined_chunks, countVars,
                   enumVars, faults, expiries, run, downloaded, ingested, prev_items_log>>

\* lines 407-410: while retry_count < self.max_retries: the content request
GetItemContentRequest ==
    /\ pc = "attempt"
    /\ retry_count < max_retries
    /\ \E status \in {"200", "403", "500"} :
         /\ srv = "down" => status = "500"
         /\ (srv = "up" /\ status = "500") => faults < MaxFaults
         /\ faults' = IF srv = "up" /\ status = "500" THEN faults + 1 ELSE faults
         /\ resp' = status
    /\ api_call_count' = IF fetch_requests < MaxRequests THEN api_call_count + 1
                         ELSE api_call_count
    /\ fetch_requests' = Min(fetch_requests + 1, MaxRequests)
    /\ downloaded' = downloaded \cup {CurrentItem.id}
    /\ pc' = "response"
    /\ UNCHANGED <<cfgVars, mainVars, staged_files, tokenVars, fileVars, vstore, loopVars, content,
                   combined_chunks, countVars, enumVars, retry_count, srv, fetch_errors,
                   outcome, expiries, run, ingested, item_flushed, prev_items_log,
                   ingestVars>>

\* get_item_content without its calls of mark_item_as_error
RecordError_none(file, item) == file

\* the error log after one more record of this fetch
RecordError(file, item) ==
    IF fetch_errors < MaxRequests THEN mark_item_as_error(file, ErrorRecord(item))
    ELSE file

\* line 413: with open(item_name, 'wb'): the working directory afterwards
open_wb(files, name) == files \cup {name}

\* a finally clause that deleted nothing
os_remove_skipped(files, name) == files

\* line 434: os.remove(item_name): the working directory afterwards
os_remove(files, name) == files \ {name}

\* get_item_content without its 403 branch
Denied_never(status) == FALSE

\* line 436: elif response.status_code == 403
Denied(status) == status = "403"

\* lines 411-462: the answer to the content request
GetItemContentResponse ==
    /\ pc = "response"
    /\ resp' = None
    /\ \/ /\ resp = "200"
          /\ \E extracted \in {"text", "empty", "fails"} :
               /\ content' = CASE extracted = "text" -> Text
                               [] extracted = "empty" -> EmptyText
                               [] OTHER -> None
               /\ outcome' = CASE extracted = "text" -> "Text"
                               [] extracted = "empty" -> "Empty"
                               [] OTHER -> "ExtractionFailed"
               /\ IF extracted = "fails"
                  THEN /\ error_items_file' = RecordError(error_items_file, CurrentItem)
                       /\ fetch_errors' = Min(fetch_errors + 1, MaxRequests)
                  ELSE UNCHANGED <<error_items_file, fetch_errors>>
          \* lines 413-414, 432-434: staged, then removed whatever the extraction did
          /\ staged_files' = os_remove(open_wb(staged_files, CurrentItem.name),
                                       CurrentItem.name)
          /\ pc' = "after_fetch"
          /\ UNCHANGED retry_count
       \/ /\ Denied(resp)
          /\ content' = None
          /\ outcome' = "AccessDenied"
          /\ pc' = "after_fetch"
          /\ UNCHANGED <<retry_count, error_items_file, fetch_errors, staged_files>>
       \/ /\ resp # "200" /\ ~Denied(resp)
          \* retry_count = + 1; is_retry is the caller's False
          /\ retry_count' = 1
          /\ error_items_file' = RecordError(error_items_file, CurrentItem)
          /\ fetch_errors' = Min(fetch_errors + 1, MaxRequests)
          /\ pc' = "attempt"
          /\ UNCHANGED <<content, outcome, staged_files>>
    /\ UNCHANGED <<cfgVars, mainVars, api_call_count, tokenVars, processed_items_file,
                   processed_drives_file, vstore, loopVars, combined_chunks, countVars,
                   enumVars, srv, fetch_requests, faults, expiries, histVars>>

\* line 463: the loop condition is false: return None
GetItemContentExhausted ==
    /\ pc = "attempt"
    /\ retry_count >= max_retries
    /\ content' = None
    /\ outcome' = "Failed"
    /\ pc' = "after_fetch"
    /\ UNCHANGED <<cfgVars, mainVars, staged_files, api_call_count, tokenVars, fileVars, vstore, loopVars,
                   combined_chunks, countVars, enumVars, retry_count, resp, srv,
                   fetch_requests, fetch_errors, faults, expiries, histVars>>

\* --------------------------------------- orchestrator: chunk, flush, mark
\* Python truth of the returned content
Truthy(c) == c # None /\ c # EmptyText

\* the items whose chunks are in a buffer
ItemsOf(chunks) == {chunks[k][1] : k \in 1..Len(chunks)}

\* lines 130-141: content: split and accumulate; no content: next item
AfterFetch ==
    /\ pc = "after_fetch"
    /\ IF Truthy(content)
       THEN /\ combined_chunks' = combined_chunks \o Chunks(CurrentItem.id)
            /\ pc' = "flush_check"
            /\ UNCHANGED item_idx
       ELSE /\ item_idx' = item_idx + 1
            /\ pc' = "item"
            /\ UNCHANGED combined_chunks
    /\ UNCHANGED <<cfgVars, mainVars, staged_files, api_call_count, tokenVars, fileVars, vstore,
                   drives_to_process, drive_idx, items_to_process, content, countVars,
                   enumVars, fetchVars, faults, expiries, histVars>>

\* line 144-145: the flush condition
FlushDue ==
    \/ total_processed_items % bulk_item_count = 0
    \/ (item_idx = Len(items_to_process) /\ drive_idx = Len(drives_to_process))

\* astra_db_handler.py lines 87-99: the loop from `attempt` on, answers[k]
\* telling whether the k-th store write succeeds, sleeps counting time.sleep
RECURSIVE IngestLoop(_, _, _)
IngestLoop(attempt, answers, sleeps) ==
    IF attempt >= AstraMaxRetries
    THEN [returned |-> None, attempts |-> attempt, sleeps |-> sleeps, raised |-> FALSE]
    ELSE IF answers[attempt + 1]
    THEN [returned |-> "inserted_ids", attempts |-> attempt + 1, sleeps |-> sleeps,
          raised |-> FALSE]
    ELSE IF attempt < AstraMaxRetries - 1
    THEN IngestLoop(attempt + 1, answers, sleeps + 1)
    ELSE [returned |-> None, attempts |-> attempt + 1, sleeps |-> sleeps,
          raised |-> TRUE]

\* the handler as it would be if it slept after the last failed attempt too
ingest_chunks_sleeping_before_raise(dry, answers) ==
    IF dry THEN [returned |-> None, attempts |-> 0, sleeps |-> 0, raised |-> FALSE]
    ELSE LET r == IngestLoop(0, answers, 0)
         IN  IF r.raised THEN [r EXCEPT !.sleeps = r.sleeps + 1] ELSE r

\* AstraDBHandler.ingest_chunks_with_embeddings_to_astra_db: what it returns,
\* the store writes it attempted, the sleeps it took, whether it raised
ingest_chunks_with_embeddings_to_astra_db(dry, answers) ==
    IF dry THEN [returned |-> None, attempts |-> 0, sleeps |-> 0, raised |-> FALSE]
    ELSE IngestLoop(0, answers, 0)

\* lines 144-156 with AstraDBHandler.ingest_chunks_with_embeddings_to_astra_db
FlushCheck ==
    /\ pc = "flush_check"
    /\ IF FlushDue
       THEN \E answers \in [1..AstraMaxRetries -> BOOLEAN] :
              LET r == ingest_chunks_with_embeddings_to_astra_db(dry_run, answers) IN
              /\ ingest_attempts' = r.attempts
              /\ ingest_sleeps' = r.sleeps
              /\ IF r.raised \/ r.returned = None
                 \* every attempt failed and the last one re-raised; or, in a dry
                 \* run, the handler returned None and len(None) raises
                 THEN /\ Raise
                      /\ UNCHANGED <<vstore, combined_chunks, countVars, ingested, item_flushed>>
                 ELSE /\ vstore' = vstore \cup {combined_chunks[k] : k \in 1..Len(combined_chunks)}
                      /\ inserted_db_document_count' =
                             inserted_db_document_count + Len(combined_chunks)
                      /\ inserted_item_count' = inserted_item_count + bulk_item_count
                      /\ combined_chunks' = << >>
                      /\ ingested' = ingested \cup ItemsOf(combined_chunks)
                      /\ item_flushed' = TRUE
                      /\ pc' = "mark"
                      /\ UNCHANGED total_processed_items
       ELSE /\ pc' = "mark"
            /\ UNCHANGED <<vstore, combined_chunks, countVars, ingested, item_flushed,
                           ingestVars>>
    /\ UNCHANGED <<cfgVars, mainVars, staged_files, api_call_count, tokenVars, fileVars, loopVars, content,
                   enumVars, fetchVars, faults, expiries, run, downloaded, prev_items_log>>

\* lines 158-160: count the item and mark it processed
MarkItem ==
    /\ pc = "mark"
    /\ total_processed_items' = total_processed_items + 1
    /\ processed_items_file' = mark_item_as_processed(processed_items_file, CurrentItem.id)
    /\ item_idx' = item_idx + 1
    /\ pc' = "item"
    /\ UNCHANGED <<cfgVars, mainVars, staged_files, api_call_count, tokenVars, processed_drives_file,
                   error_items_file, vstore, drives_to_process, drive_idx,
                   items_to_process, content, combined_chunks,
                   inserted_db_document_count, inserted_item_count, enumVars, fetchVars,
                   faults, expiries, histVars>>

\* an item loop that may be left before its last item
ItemsDone_early ==
    /\ pc = "item"
    /\ pc' = "drive_mark"
    /\ UNCHANGED <<cfgVars, mainVars, staged_files, api_call_count, tokenVars, fileVars, vstore, loopVars, content,
                   combined_chunks, countVars, enumVars, fetchVars, faults, expiries,
                   histVars>>

\* line 122: the loop over the items is over
ItemsDone ==
    /\ pc = "item"
    /\ item_idx > Len(items_to_process)
    /\ pc' = "drive_mark"
    /\ UNCHANGED <<cfgVars, mainVars, staged_files, api_call_count, tokenVars, fileVars, vstore, loopVars, content,
                   combined_chunks, countVars, enumVars, fetchVars, faults, expiries,
                   histVars>>

\* an orchestrator that marked a drive only if each of its items was ingested
MarkDrive_if_clean ==
    /\ pc = "drive_mark"
    /\ processed_drives_file' =
           IF \A k \in 1..Len(items_to_process) : items_to_process[k].id \in ingested
           THEN mark_item_as_processed(processed_drives_file, CurrentDrive.id)
           ELSE processed_drives_file
    /\ pc' = "clear"
    /\ UNCHANGED <<cfgVars, mainVars, staged_files, api_call_count, tokenVars,
                   processed_items_file, error_items_file, vstore, loopVars, content,
                   combined_chunks, countVars, enumVars, fetchVars, faults, expiries,
                   histVars>>

\* line 162: mark the drive processed
MarkDrive ==
    /\ pc = "drive_mark"
    /\ processed_drives_file' = mark_item_as_processed(processed_drives_file, CurrentDrive.id)
    /\ pc' = "clear"
    /\ UNCHANGED <<cfgVars, mainVars, staged_files, api_call_count, tokenVars, processed_items_file,
                   error_items_file, vstore, loopVars, content, combined_chunks, countVars,
                   enumVars, fetchVars, faults, expiries, histVars>>

\* line 163: clear the processed-items log; the next drive
ClearItems ==
    /\ pc = "clear"
    /\ processed_items_file' = clear_processed_items_record(processed_items_file)
    /\ drive_idx' = drive_idx + 1
    /\ pc' = "drive"
    /\ UNCHANGED <<cfgVars, mainVars, staged_files, api_call_count, tokenVars, processed_drives_file,
                   error_items_file, vstore, drives_to_process, items_to_process,
                   item_idx, content, combined_chunks, countVars, enumVars, fetchVars,
                   faults, expiries, histVars>>

\* ------------------------------------------------------------ environment
\* the memory of a process is gone when it ends, and fresh when one starts
ResetProcess ==
    /\ api_call_count' = 0
    /\ token_user' = "none"
    /\ token_admin' = "none"
    /\ drives_to_process' = << >>
    /\ drive_idx' = 0
    /\ items_to_process' = << >>
    /\ item_idx' = 0
    /\ content' = None
    /\ combined_chunks' = << >>
    /\ inserted_db_document_count' = 0
    /\ inserted_item_count' = 0
    /\ total_processed_items' = 0
    /\ stack' = << >>
    /\ items_list' = << >>
    /\ retry_count' = 0
    /\ resp' = None
    /\ srv' = None
    /\ fetch_requests' = 0
    /\ fetch_errors' = 0
    /\ outcome' = None
    /\ downloaded' = {}
    /\ ingested' = {}
    /\ item_flushed' = FALSE
    /\ ingest_attempts' = 0
    /\ ingest_sleeps' = 0

\* the process is killed (or the machine stops) at any point of the run
Interrupt ==
    /\ Running
    /\ pc' = "killed"
    /\ ResetProcess
    /\ UNCHANGED <<cfgVars, mainVars, staged_files, fileVars, vstore, faults, expiries, run, prev_items_log>>

\* the script is started again on the files the last run left
Restart ==
    /\ ~Running
    /\ run < MaxRuns
    /\ run' = run + 1
    /\ prev_items_log' = Lines(processed_items_file)
    /\ pc' = "start"
    /\ ResetProcess
    /\ UNCHANGED <<cfgVars, mainVars, staged_files, fileVars, vstore, faults, expiries>>

\* time passes the expiry date of a token
Expire ==
    /\ Running
    /\ expiries < MaxExpiries
    /\ expiries' = expiries + 1
    /\ \/ token_user = "valid" /\ token_user' = "expired" /\ UNCHANGED token_admin
       \/ token_admin = "valid" /\ token_admin' = "expired" /\ UNCHANGED token_user
    /\ UNCHANGED <<cfgVars, mainVars, staged_files, api_call_count, fileVars, vstore, pc, loopVars, content,
                   combined_chunks, countVars, enumVars, fetchVars, faults, histVars>>

\* ------------------------------------------------------- specifications
\* one step of the program
Step ==
    \/ InitAuthUser
    \/ GetSiteId
    \/ GetDrives
    \/ SkipDrive
    \/ EnterDrive
    \/ Report
    \/ EnumCall
    \/ EnumRequest
    \/ EnumIterate
    \/ FilterItems
    \/ GetItemContentEnter
    \/ GetItemContentRequest
    \/ GetItemContentResponse
    \/ GetItemContentExhausted
    \/ AfterFetch
    \/ FlushCheck
    \/ MarkItem
    \/ ItemsDone
    \/ MarkDrive
    \/ ClearItems

\* one run of main
Next ==
    \/ Step
    \/ Interrupt
    \/ Expire

Spec == Init /\ [][Next]_vars

\* runs of main one after the other
NextResume ==
    \/ Step
    \/ Interrupt
    \/ Restart

SpecResume == InitResume /\ [][NextResume]_vars

\* one run of main in which the program, unless it is killed, keeps running
FairSpec == Init /\ [][Next]_vars /\ WF_vars(Step)

\* ------------------------------------------------------------------ main
\* the settings of drive_white_list: the library named at line 15, or the
\* library the dry run simulates (share_point_handler.py line 230)
DriveWhiteLists == {drive_white_list, {"SBX - ISO Compliance Records"}}

\* main in either mode (SECURE unset or "False", SECURE "True"), with or
\* without --dry_run, under either setting of drive_white_list, on a site
\* of small libraries
InitMain ==
    /\ dry_run \in BOOLEAN
    /\ max_retries \in MaxRetriesChoices
    /\ max_drives = -1
    /\ max_items = -1
    /\ bulk_item_count = 1
    /\ listing \in ResumeListings
    /\ white_list_drives \in DriveWhiteLists
    /\ faults = 0
    /\ expiries = MaxExpiries
    /\ secure \in BOOLEAN
    /\ FirstRun

\* sharepoint_integration.py lines 331-342: process_all_sharepoint_files_by_site_name
\* has returned or raised; the except clause logs, the finally clause saves
\* the temporary files if secure, and main returns
MainFinally ==
    /\ pc \in {"done", "aborted"}
    /\ temp_files_saved' = IF secure THEN TRUE ELSE temp_files_saved
    /\ pc' = "exit"
    /\ UNCHANGED <<cfgVars, secure, staged_files, api_call_count, tokenVars, fileVars,
                   vstore, loopVars, content, combined_chunks, countVars, enumVars,
                   fetchVars, faults, expiries, histVars>>

NextMain ==
    \/ Step
    \/ MainFinally

SpecMain == InitMain /\ [][NextMain]_vars

\* ------------------------------------------ SharePointHandler as a library
\* A caller that owns a SharePointHandler and calls its public methods in any
\* order: the handler's contract apart from the orchestrator's call pattern.
ApiDrives == {"d1", "d2", "d5"}
ApiFolders == {None, "F1"}
ApiMarkableItems == {"F1", "D1"}
ApiMarkableDrives == {"d1"}

\* SharePointHandler.__init__: a fresh handler, no checkpoint file on disk
InitApi ==
    /\ dry_run \in BOOLEAN
    /\ max_retries \in MaxRetriesChoices
    /\ max_drives = -1
    /\ max_items \in MaxItemsChoices
    /\ bulk_item_count = 1
    /\ listing = << "d1", "d2" >>
    /\ white_list_drives = drive_white_list
    /\ faults = 0
    /\ expiries = 0
    /\ processed_items_file = NoFile
    /\ processed_drives_file = NoFile
    /\ error_items_file = NoFile
    /\ vstore = {}
    /\ run = 1
    /\ prev_items_log = << >>
    /\ api_call_count = 0
    /\ token_user = "none"
    /\ token_admin = "none"
    /\ pc = "api"
    /\ drives_to_process = << >>
    /\ drive_idx = 0
    /\ items_to_process = << >>
    /\ item_idx = 0
    /\ content = None
    /\ combined_chunks = << >>
    /\ inserted_db_document_count = 0
    /\ inserted_item_count = 0
    /\ total_processed_items = 0
    /\ stack = << >>
    /\ items_list = << >>
    /\ retry_count = 0
    /\ resp = None
    /\ srv = None
    /\ fetch_requests = 0
    /\ fetch_errors = 0
    /\ outcome = None
    /\ downloaded = {}
    /\ ingested = {}
    /\ item_flushed = FALSE
    /\ ingest_attempts = 0
    /\ ingest_sleeps = 0
    /\ secure = FALSE
    /\ temp_files_saved = FALSE
    /\ staged_files = {}

\* the caller marks an item in the processed-items log
ApiMarkItem ==
    /\ pc = "api"
    /\ Len(Lines(processed_items_file)) < MaxLogLines
    /\ \E id \in ApiMarkableItems :
         processed_items_file' = mark_item_as_processed(processed_items_file, id)
    /\ UNCHANGED <<cfgVars, mainVars, staged_files, api_call_count, tokenVars, processed_drives_file,
                   error_items_file, vstore, pc, loopVars, content, combined_chunks,
                   countVars, enumVars, fetchVars, faults, expiries, histVars>>

\* the caller marks a drive in the processed-drives log
ApiMarkDrive ==
    /\ pc = "api"
    /\ Len(Lines(processed_drives_file)) < MaxLogLines
    /\ \E id \in ApiMarkableDrives :
         processed_drives_file' = mark_item_as_processed(processed_drives_file, id)
    /\ UNCHANGED <<cfgVars, mainVars, staged_files, api_call_count, tokenVars, processed_items_file,
                   error_items_file, vstore, pc, loopVars, content, combined_chunks,
                   countVars, enumVars, fetchVars, faults, expiries, histVars>>

\* the caller clears the processed-items log
ApiClearItems ==
    /\ pc = "api"
    /\ processed_items_file.exists
    /\ processed_items_file' = clear_processed_items_record(processed_items_file)
    /\ UNCHANGED <<cfgVars, mainVars, staged_files, api_call_count, tokenVars, processed_drives_file,
                   error_items_file, vstore, pc, loopVars, content, combined_chunks,
                   countVars, enumVars, fetchVars, faults, expiries, histVars>>

\* the caller calls get_items_in_item_recursive(site_id, drive_id, item_id,
\* drive_name, max_items=max_items): path and items_list take their defaults
ApiGetItems ==
    /\ pc = "api"
    /\ api_call_count < MaxRequests
    /\ \E d \in ApiDrives, i \in ApiFolders :
         stack' = << CallFrame(d, i, DriveNameOf(d), RootPath, max_items) >>
    /\ items_list' = << >>
    /\ pc' = "enum"
    /\ UNCHANGED <<cfgVars, mainVars, staged_files, api_call_count, tokenVars, fileVars, vstore, loopVars, content,
                   combined_chunks, countVars, fetchVars, faults, expiries, histVars>>

\* the outermost call returns items_list to the caller
ApiReturn ==
    /\ pc = "enum"
    /\ stack = << >>
    /\ pc' = "api"
    /\ UNCHANGED <<cfgVars, mainVars, staged_files, api_call_count, tokenVars, fileVars, vstore, loopVars, content,
                   combined_chunks, countVars, enumVars, fetchVars, faults, expiries,
                   histVars>>

\* the files the caller may ask the content of: report.pdf and notes.txt of d1
ApiFetchableItems ==
    { extract_item_details(RemotePages("d1", None)[1][2], "d1", DriveNameOf("d1"), RootPath),
      extract_item_details(RemotePages("d1", None)[2][1], "d1", DriveNameOf("d1"), RootPath) }

\* the caller calls init_auth_token_with_username_password ("user"),
\* init_auth_token_app_only ("app") or init_auth_token ("both": app, then user)
ApiInitAuthToken ==
    /\ pc = "api"
    /\ api_call_count < MaxRequests
    /\ \E which \in {"user", "app", "both"}, uok, aok \in BOOLEAN :
         LET doA == which \in {"app", "both"}
             failA == doA /\ ~aok
             doU == which \in {"user", "both"} /\ ~failA
             failU == doU /\ ~uok
         IN
         IF dry_run
         THEN UNCHANGED <<api_call_count, tokenVars, pc>>
         ELSE /\ token_admin' = IF doA /\ aok THEN "valid" ELSE token_admin
              /\ token_user' = IF doU /\ uok THEN "valid" ELSE token_user
              /\ api_call_count' = api_call_count + (IF doA THEN 1 ELSE 0)
                                                  + (IF doU THEN 1 ELSE 0)
              /\ IF failA \/ failU THEN Raise ELSE UNCHANGED pc
    /\ UNCHANGED <<cfgVars, mainVars, staged_files, fileVars, vstore, loopVars, content, combined_chunks,
                   countVars, enumVars, fetchVars, faults, expiries, histVars>>

\* the caller calls check_token
ApiCheckToken ==
    /\ pc = "api"
    /\ api_call_count < MaxRequests
    /\ \E uok, aok \in BOOLEAN :
         LET ct == check_token(dry_run, token_user, token_admin, uok, aok) IN
         /\ token_user' = ct.user
         /\ token_admin' = ct.admin
         /\ api_call_count' = api_call_count + ct.calls
         /\ IF ct.raised THEN Raise ELSE UNCHANGED pc
    /\ UNCHANGED <<cfgVars, mainVars, staged_files, fileVars, vstore, loopVars, content, combined_chunks,
                   countVars, enumVars, fetchVars, faults, expiries, histVars>>

\* the caller calls get_site_id_by_site_name
ApiGetSiteId ==
    /\ pc = "api"
    /\ api_call_count < MaxRequests
    /\ \E uok, aok, ok \in BOOLEAN :
         LET ct == check_token(dry_run, token_user, token_admin, uok, aok) IN
         /\ token_user' = ct.user
         /\ token_admin' = ct.admin
         /\ IF ct.raised
            THEN api_call_count' = api_call_count + ct.calls /\ Raise
            ELSE IF dry_run
            THEN UNCHANGED <<api_call_count, pc>>
            ELSE /\ api_call_count' = api_call_count + ct.calls + 1
                 /\ IF ok THEN UNCHANGED pc ELSE Raise
    /\ UNCHANGED <<cfgVars, mainVars, staged_files, fileVars, vstore, loopVars, content, combined_chunks,
                   countVars, enumVars, fetchVars, faults, expiries, histVars>>

\* the caller calls get_drives_by_site_id and keeps the list it returns
ApiGetDrives ==
    /\ pc = "api"
    /\ api_call_count < MaxRequests
    /\ \E uok, aok, ok \in BOOLEAN :
         LET ct == check_token(dry_run, token_user, token_admin, uok, aok)
             drives == IF dry_run THEN DryRunDrives
                       ELSE [i \in DOMAIN listing |-> RemoteDrive(listing[i])]
         IN
         /\ token_user' = ct.user
         /\ token_admin' = ct.admin
         /\ IF ct.raised
            THEN /\ api_call_count' = api_call_count + ct.calls
                 /\ Raise
                 /\ UNCHANGED drives_to_process
            ELSE IF ~dry_run /\ ~ok
            THEN /\ api_call_count' = api_call_count + ct.calls + 1
                 /\ Raise
                 /\ UNCHANGED drives_to_process
            ELSE /\ api_call_count' = api_call_count + ct.calls + (IF dry_run THEN 0 ELSE 1)
                 /\ drives_to_process' = drives
                 /\ UNCHANGED pc
    /\ UNCHANGED <<cfgVars, mainVars, staged_files, fileVars, vstore, drive_idx, items_to_process, item_idx,
                   content, combined_chunks, countVars, enumVars, fetchVars, faults,
                   expiries, histVars>>

\* the caller calls get_item_content for a file, as the orchestrator does
\* (is_retry=False)
ApiGetItemContent ==
    /\ pc = "api"
    /\ api_call_count < MaxRequests
    /\ \E item \in ApiFetchableItems : items_to_process' = << item >>
    /\ item_idx' = 1
    /\ pc' = "item"
    /\ UNCHANGED <<cfgVars, mainVars, staged_files, api_call_count, tokenVars, fileVars, vstore,
                   drives_to_process, drive_idx, content, combined_chunks, countVars,
                   enumVars, fetchVars, faults, expiries, histVars>>

\* get_item_content returns content to the caller
ApiReturnContent ==
    /\ pc = "after_fetch"
    /\ pc' = "api"
    /\ UNCHANGED <<cfgVars, mainVars, staged_files, api_call_count, tokenVars, fileVars, vstore, loopVars, content,
                   combined_chunks, countVars, enumVars, fetchVars, faults, expiries,
                   histVars>>

NextApi ==
    \/ ApiMarkItem
    \/ ApiMarkDrive
    \/ ApiClearItems
    \/ ApiGetItems
    \/ EnumCall
    \/ EnumRequest
    \/ EnumIterate
    \/ ApiReturn
    \/ ApiInitAuthToken
    \/ ApiCheckToken
    \/ ApiGetSiteId
    \/ ApiGetDrives
    \/ ApiGetItemContent
    \/ GetItemContentEnter
    \/ GetItemContentRequest
    \/ GetItemContentResponse
    \/ GetItemContentExhausted
    \/ ApiReturnContent

SpecApi == InitApi /\ [][NextApi]_vars

\* ================================================================ claims
\* the ids in the processed-items log
MarkedItems == {Lines(processed_items_file)[k] : k \in 1..Len(Lines(processed_items_file))}

\* the ids in the processed-drives log
MarkedDrives == {Lines(processed_drives_file)[k] : k \in 1..Len(Lines(processed_drives_file))}

\* the current item is the last item of the last drive
LastItemOfLastDrive ==
    item_idx = Len(items_to_process) /\ drive_idx = Len(drives_to_process)

\* the orchestrator is inside the item loop, at an item
AtItem ==
    /\ pc \in {"attempt", "response", "after_fetch", "flush_check", "mark"}
    /\ item_idx \in 1..Len(items_to_process)

\* C1: an item's id is in the processed-items log only if every chunk made
\* from the item is in the store (was part of a batch whose flush succeeded);
\* an item whose chunks wait in combined_chunks is not marked.
C1_MarkedOnlyAfterFlush ==
    \A id \in MarkedItems :
        /\ \A k \in 1..NumChunks(id) : <<id, k>> \in vstore
        /\ \A k \in 1..Len(combined_chunks) : combined_chunks[k][1] # id

\* C2: when process_all_sharepoint_files_by_site_name returns normally,
\* combined_chunks is empty.
C2_BufferEmptyAtReturn == pc = "done" => combined_chunks = << >>

\* C3: a run started on the logs of an interrupted run requests no content and
\* ingests nothing for an item the earlier run left in the processed-items log.
C3_NoReprocessingOnResume ==
    run > 1 =>
        \A k \in 1..Len(prev_items_log) :
            /\ prev_items_log[k] \notin downloaded
            /\ prev_items_log[k] \notin ingested

\* C4: when the orchestrator has handled an item, a flush occurred at that item
\* exactly if the running processed-item count was a multiple of
\* bulk_item_count or the item is the last item of the last drive.
C4_FlushCadence ==
    [][ (pc \in {"after_fetch", "mark"} /\ pc' = "item" /\ item_idx' = item_idx + 1)
          => (item_flushed <=> (\/ total_processed_items % bulk_item_count = 0
                                \/ LastItemOfLastDrive)) ]_vars

\* C5: one call of get_item_content issues at most max_retries content requests.
C5_AtMostMaxRetriesRequests == fetch_requests <= max_retries

\* C6: a fetch whose every attempt gets a retryable status appends exactly one
\* error record for the item, and the item is not marked processed.
C6_OneErrorRecordPerFailedFetch ==
    (AtItem /\ srv = "down") =>
        /\ fetch_errors <= 1
        /\ (outcome = "Failed" => fetch_errors = 1)
        /\ CurrentItem.id \notin MarkedItems

\* C7: once the orchestrator has handled an item whose fetch ended in
\* AccessDenied or ExtractionFailed, the item's id is in the processed-items log.
C7_NoContentItemMarked ==
    [][ (pc = "after_fetch" /\ outcome \in {"AccessDenied", "ExtractionFailed"}
            /\ pc' = "item")
          => \E k \in 1..Len(Lines(processed_items_file')) :
                 Lines(processed_items_file')[k] = CurrentItem.id ]_vars

\* C8: a failed fetch (403, a failed extraction, or max_retries requests that
\* all failed) is followed by the orchestrator going on to the next item or to
\* the end of the drive, unless the process is killed.
C8_FailureDoesNotHaltSiblings ==
    ( \/ (pc = "after_fetch" /\ outcome \in {"AccessDenied", "ExtractionFailed", "Failed"})
      \/ (pc = "attempt" /\ srv = "down" /\ fetch_requests >= max_retries) )
    ~> (pc \in {"item", "killed", "aborted"})

\* C9: get_item_content on an item whose id is in the processed-items log
\* returns None at once: no request, no token refresh, no write to a log.
C9_ProcessedItemSkipped ==
    [][ (/\ pc = "item"
         /\ item_idx <= Len(items_to_process)
         /\ items_to_process[item_idx].id \in MarkedItems
         /\ pc' # "killed")
          => (/\ pc' = "after_fetch"
              /\ content' = None
              /\ api_call_count' = api_call_count
              /\ downloaded' = downloaded
              /\ UNCHANGED <<tokenVars, fileVars>>) ]_vars

\* a processed item was handed to get_item_content, which returned None
C9_Witness ==
    /\ pc = "after_fetch"
    /\ CurrentItem.id \in MarkedItems
    /\ content = None
    /\ CurrentItem.id \notin downloaded

\* C10: a call of get_items_in_item_recursive for a drive whose id is in the
\* processed-drives log, or for a folder whose id is in the processed-items
\* log, returns with the accumulated list unchanged, having made no request
\* and no token refresh.
C10_ProcessedDriveOrFolderSkipped ==
    [][ (/\ pc = "enum"
         /\ stack # << >>
         /\ stack[Len(stack)].phase = "call"
         /\ \/ stack[Len(stack)].drive_id \in MarkedDrives
            \/ stack[Len(stack)].item_id \in MarkedItems)
          => (/\ stack' = SubSeq(stack, 1, Len(stack) - 1)
              /\ items_list' = items_list
              /\ api_call_count' = api_call_count
              /\ pc' = pc
              /\ UNCHANGED <<tokenVars, fileVars>>) ]_vars

\* the listing of drive d1 came to folder F1, whose id is in the
\* processed-items log: the call for F1 has returned and the list holds the
\* folder but none of its children
C10_Witness ==
    /\ pc = "enum"
    /\ Len(stack) = 1
    /\ stack[1].drive_id = "d1"
    /\ stack[1].item_id = None
    /\ stack[1].phase = "iterate"
    /\ stack[1].page = 1
    /\ stack[1].idx = 2
    /\ "F1" \in MarkedItems
    /\ "d1" \notin MarkedDrives
    /\ Len(items_list) = 2
    /\ items_list[1].id = "F1"
    /\ items_list[2].id = "F1"

\* C11: with max_items > 0, no page request is issued once the collected
\* whitelisted non-folder items outnumber max_items.
C11_NoPageRequestBeyondCap ==
    ~ (/\ pc = "enum"
       /\ stack # << >>
       /\ stack[Len(stack)].phase = "request"
       /\ stack[Len(stack)].max_items > 0
       /\ CapExceeded(items_list, stack[Len(stack)].max_items))

\* C12: the list get_items_in_item_recursive accumulates holds every
\* enumerated child once: no id occurs at two positions.
C12_EachChildAppendedOnce ==
    \A i, j \in 1..Len(items_list) :
        i # j => items_list[i].id # items_list[j].id

\* C13: a 403 answer to the content request ends get_item_content at once:
\* it returns None (AccessDenied) without raising, makes no further request
\* and writes no error record; if it answered the first request of the
\* fetch, the fetch made exactly one request.
C13_AccessDeniedNoRetryNoRecord ==
    [][ (pc = "response" /\ resp = "403" /\ pc' \notin {"response", "killed"})
          => (/\ pc' = "after_fetch"
              /\ content' = None
              /\ outcome' = "AccessDenied"
              /\ error_items_file' = error_items_file
              /\ api_call_count' = api_call_count
              /\ fetch_requests' = fetch_requests
              /\ (retry_count = 0 => fetch_requests' = 1)) ]_vars

\* the first content request of an item was answered 403 and the fetch is over
C13_Witness ==
    /\ pc = "after_fetch"
    /\ outcome = "AccessDenied"
    /\ content = None
    /\ fetch_requests = 1
    /\ fetch_errors = 0
    /\ error_items_file = NoFile

\* C14: when the content request is answered 200 and the text extraction
\* fails, get_item_content appends one error record for the item and returns
\* None (ExtractionFailed) without raising and without another request; and
\* no fetch of a run starts with a request for an item that the run has
\* already requested.
C14_ExtractionFailedOneRecordNoRetry ==
    [][ /\ (pc = "response" /\ resp = "200" /\ outcome' = "ExtractionFailed")
              => (/\ pc' = "after_fetch"
                  /\ content' = None
                  /\ error_items_file' =
                         File(Append(Lines(error_items_file), CurrentItem.id))
                  /\ api_call_count' = api_call_count
                  /\ fetch_requests' = fetch_requests
                  /\ UNCHANGED <<processed_items_file, processed_drives_file>>)
        /\ (pc = "attempt" /\ pc' = "response" /\ fetch_requests = 0)
              => CurrentItem.id \notin downloaded ]_vars

\* the extraction of the first answer failed: one record, the fetch is over
C14_Witness ==
    /\ pc = "after_fetch"
    /\ outcome = "ExtractionFailed"
    /\ content = None
    /\ fetch_requests = 1
    /\ error_items_file = File(<< CurrentItem.id >>)

\* C15: outside a dry run a flush makes between one and AstraMaxRetries store
\* writes and sleeps only between two writes; it goes on only if a write
\* succeeded; if every write failed the run is aborted with the store and the
\* checkpoint logs as they were, and an aborted run requests, stores and
\* marks nothing more.
C15_IngestRetriesThenAborts ==
    [][ /\ (pc = "flush_check" /\ FlushDue /\ ~dry_run
                /\ pc' \notin {"flush_check", "killed"})
              => (/\ ingest_attempts' \in 1..AstraMaxRetries
                  /\ ingest_sleeps' = ingest_attempts' - 1
                  /\ pc' \in {"mark", "aborted"}
                  /\ pc' = "mark" =>
                        \A k \in 1..Len(combined_chunks) : combined_chunks[k] \in vstore'
                  /\ pc' = "aborted" =>
                        (/\ ingest_attempts' = AstraMaxRetries
                         /\ vstore' = vstore
                         /\ combined_chunks' = combined_chunks
                         /\ UNCHANGED <<fileVars, downloaded, api_call_count>>))
        /\ pc = "aborted"
              => (/\ pc' = "aborted"
                  /\ vstore' = vstore
                  /\ UNCHANGED <<fileVars, downloaded, api_call_count>>) ]_vars

\* a batch is in the store, a later flush failed AstraMaxRetries times and
\* the run is aborted with its drive unmarked
C15_Witness ==
    /\ pc = "aborted"
    /\ ~dry_run
    /\ ingest_attempts = AstraMaxRetries
    /\ ingest_sleeps = AstraMaxRetries - 1
    /\ vstore # {}
    /\ combined_chunks # << >>
    /\ CurrentDrive.id \notin MarkedDrives

\* a call of get_items_in_item_recursive stands at a page request that the
\* enumeration will not go on from: the request was answered with an error
PageRequestFailed ==
    stack # << >> /\ stack[Len(stack)].phase = "request" /\ pc # "enum"

\* C16: when a page request of a drive's enumeration fails, the run is
\* aborted: the drive's id is not in the processed-drives log, none of the
\* items collected for the drive was requested, ingested or marked, and
\* nothing is requested or written afterwards.
C16_PageFailureAbortsEnumeration ==
    [][ /\ PageRequestFailed' =>
              (/\ pc' = "aborted"
               /\ drives_to_process'[drive_idx'].id \notin
                      {Lines(processed_drives_file')[k] :
                          k \in 1..Len(Lines(processed_drives_file'))}
               /\ \A k \in 1..Len(items_list') :
                     /\ items_list'[k].id \notin downloaded'
                     /\ items_list'[k].id \notin ingested'
                     /\ \A n \in 1..Len(Lines(processed_items_file')) :
                           Lines(processed_items_file')[n] # items_list'[k].id)
        /\ PageRequestFailed =>
              (/\ pc' = pc
               /\ vstore' = vstore
               /\ UNCHANGED <<fileVars, downloaded, ingested, api_call_count>>) ]_vars

\* the second page of drive d1 was refused after four entries were collected
C16_Witness ==
    /\ PageRequestFailed
    /\ pc = "aborted"
    /\ stack[Len(stack)].drive_id = "d1"
    /\ stack[Len(stack)].page = 2
    /\ Len(items_list) = 4
    /\ \E k \in 1..Len(items_list) : Whitelisted(items_list[k])

\* C17: every item of the list the orchestrator hands to get_item_content is
\* a file whose extension is in white_list_file_extensions, and with
\* max_items > 0 the list of a drive has at most max_items items.
C17_OnlyWhitelistedFilesWithinCap ==
    /\ \A k \in 1..Len(items_to_process) :
          /\ ~items_to_process[k].is_folder
          /\ items_to_process[k].extension \in white_list_file_extensions
    /\ max_items > 0 => Len(items_to_process) <= max_items

\* an item is being fetched from a list that was cut to max_items, out of an
\* enumeration that held a folder, a file of another extension and more
\* than max_items whitelisted files
C17_Witness ==
    /\ pc = "attempt"
    /\ max_items > 0
    /\ Len(items_to_process) = max_items
    /\ Cardinality({k \in 1..Len(items_list) :
                       /\ ~items_list[k].is_folder
                       /\ items_list[k].extension \in white_list_file_extensions})
          > max_items
    /\ \E k \in 1..Len(items_list) : items_list[k].is_folder
    /\ \E k \in 1..Len(items_list) :
          ~items_list[k].is_folder
          /\ items_list[k].extension \notin white_list_file_extensions

\* C18: while the orchestrator stands at a drive whose name is not
\* "SBX - Bid Respository" it only moves on to the next drive: no request is
\* made, no log is written, the store and combined_chunks stay as they are;
\* and the id of such a drive is never in the processed-drives log.
C18_OtherDriveSkippedEntirely ==
    [][ /\ (/\ pc = "drive"
            /\ drive_idx \in 1..Len(drives_to_process)
            /\ drives_to_process[drive_idx].name # "SBX - Bid Respository"
            /\ pc' # "killed")
              => (/\ pc' = "drive"
                  /\ drive_idx' \in {drive_idx, drive_idx + 1}
                  /\ vstore' = vstore
                  /\ UNCHANGED <<api_call_count, fileVars, combined_chunks, downloaded,
                                 enumVars>>)
        /\ \A k \in 1..Len(drives_to_process') :
              drives_to_process'[k].name # "SBX - Bid Respository"
                => \A n \in 1..Len(Lines(processed_drives_file')) :
                      Lines(processed_drives_file')[n] # drives_to_process'[k].id ]_vars

\* the compliance library d3 was passed over with chunks waiting in the
\* buffer: they are still there, nothing of d3 was requested or marked
C18_Witness ==
    /\ pc = "drive"
    /\ Len(drives_to_process) = 2
    /\ drive_idx = 3
    /\ drives_to_process[2].id = "d3"
    /\ "d3" \notin MarkedDrives
    /\ "G1" \notin downloaded
    /\ combined_chunks # << >>

\* C19: in a run, the processed-drives log grows only by the id of the
\* current drive and only when every item of the drive's list has been
\* handled; the processed-items log is cleared only right after that mark;
\* and a content request is made only when every whitelisted drive before
\* the current one is marked.
C19_DriveMarkFollowsItsItems ==
    [][ /\ processed_drives_file' # processed_drives_file
              => (/\ pc = "drive_mark"
                  /\ item_idx = Len(items_to_process) + 1
                  /\ \A k \in 1..Len(items_to_process) :
                        items_to_process[k].id \in downloaded
                  /\ processed_drives_file' =
                        File(Append(Lines(processed_drives_file),
                                    drives_to_process[drive_idx].id)))
        /\ (pc = "clear" /\ pc' = "drive")
              => (/\ Lines(processed_drives_file) # << >>
                  /\ Lines(processed_drives_file)[Len(Lines(processed_drives_file))]
                        = drives_to_process[drive_idx].id
                  /\ ~processed_items_file'.exists
                  /\ drive_idx' = drive_idx + 1)
        /\ (processed_items_file.exists /\ ~processed_items_file'.exists)
              => pc = "clear"
        /\ (pc = "attempt" /\ pc' = "response")
              => \A k \in 1..(drive_idx - 1) :
                    drives_to_process[k].name = "SBX - Bid Respository"
                      => drives_to_process[k].id \in MarkedDrives ]_vars

\* the first drive is marked, the processed-items log is cleared, and an
\* item of the second drive has been requested
C19_Witness ==
    /\ pc = "response"
    /\ drive_idx = 2
    /\ MarkedDrives = {drives_to_process[1].id}
    /\ ~processed_items_file.exists
    /\ ingested # {}

\* C20: with dry_run set, whatever handler methods a caller calls,
\* api_call_count stays 0 and no token is fetched; get_drives_by_site_id
\* returns the one simulated drive, get_items_in_item_recursive returns the
\* two simulated entries (or the untouched list for a processed drive or
\* folder) and get_item_content returns the simulated text (or None for a
\* processed item): the same on every call.
C20_DryRunIssuesNoCalls ==
    dry_run =>
        /\ api_call_count = 0
        /\ token_user = "none"
        /\ token_admin = "none"
        /\ pc # "aborted"
        /\ drives_to_process # << >> =>
              (/\ Len(drives_to_process) = 1
               /\ drives_to_process[1].name = "SBX - ISO Compliance Records")
        /\ (pc = "enum" /\ stack = << >>) =>
              \/ items_list = << >>
              \/ /\ Len(items_list) = 2
                 /\ items_list[1].name = "Associate Contractor Forms"
                 /\ items_list[1].is_folder
                 /\ items_list[2].name =
                        "01. Associate CFSA (Deliv) TEMPLATE. March 2022.docx"
                 /\ items_list[2].extension = ".docx"
                 /\ ~items_list[2].is_folder
        /\ pc = "after_fetch" =>
              content = IF items_to_process[item_idx].id \in MarkedItems THEN None
                        ELSE "This is a simulated content for dry run."

\* a dry-run handler has returned the simulated drive, the simulated entries
\* and the simulated text, some of them twice, without a single request
C20_Witness ==
    /\ dry_run
    /\ pc = "after_fetch"
    /\ content = "This is a simulated content for dry run."
    /\ Len(items_list) = 2
    /\ Len(drives_to_process) = 1
    /\ api_call_count = 0
    /\ processed_items_file.exists

\* the exchanges check_token owes for a token: one if it is expired or was
\* never issued, none if it is unexpired
ExchangesDue(tok) == IF TokenExpired(tok) THEN 1 ELSE 0

\* C21: outside a dry run, when check_token has returned normally (the method
\* that called it went on: the site lookup and the drive listing made their
\* one request, the enumeration and the fetch reached their first request),
\* both tokens are issued and unexpired, and the authentication exchanges made
\* are one for each token that was expired or never issued and none for a
\* token that was unexpired, which is the token it was.
C21_CheckTokenRefreshesExactlyExpired ==
    [][ ~dry_run =>
          LET due == ExchangesDue(token_user) + ExchangesDue(token_admin)
              both == token_user' = "valid" /\ token_admin' = "valid"
              kept == /\ token_user = "valid" => token_user' = token_user
                      /\ token_admin = "valid" => token_admin' = token_admin
          IN
          /\ (pc = "site" /\ pc' = "drives")
                => (both /\ kept /\ api_call_count' = api_call_count + due + 1)
          /\ (pc = "drives" /\ pc' = "drive")
                => (both /\ kept /\ api_call_count' = api_call_count + due + 1)
          /\ (pc = "enum" /\ pc' = "enum" /\ stack # << >> /\ stack' # << >>
                 /\ stack[Len(stack)].phase = "call"
                 /\ stack'[Len(stack')].phase = "request")
                => (both /\ kept /\ api_call_count' = api_call_count + due)
          /\ (pc = "item" /\ pc' = "attempt")
                => (both /\ kept /\ api_call_count' = api_call_count + due) ]_vars

\* the delegated token expired after the first authentication; the site
\* lookup's check_token replaced it and fetched the application token: four
\* requests so far (two of them by check_token), both tokens unexpired
C21_Witness ==
    /\ pc = "drives"
    /\ ~dry_run
    /\ expiries = 1
    /\ token_user = "valid"
    /\ token_admin = "valid"
    /\ api_call_count = 4

\* the orchestrator stands where its next step authenticates: line 86, or a
\* handler method that is about to call check_token
AtAuthentication ==
    \/ pc \in {"start", "site", "drives"}
    \/ /\ pc = "enum"
       /\ stack # << >>
       /\ stack[Len(stack)].phase = "call"
       /\ stack[Len(stack)].drive_id \notin MarkedDrives
       /\ stack[Len(stack)].item_id \notin MarkedItems
    \/ /\ pc = "item"
       /\ item_idx <= Len(items_to_process)
       /\ items_to_process[item_idx].id \notin MarkedItems

\* C22: outside a dry run, a step of the program that authenticates and
\* leaves a token it needs unissued or expired (the exchange was refused)
\* aborts the run; the refused exchange was one request (the requests of the
\* step are that one and one for a delegated token renewed just before), the
\* refused token is as it was, no log, store or list is touched; and an
\* aborted run makes no request, traverses no drive, fetches no item and
\* writes no checkpoint.
C22_AuthFailureFatalNoRetry ==
    [][ /\ (/\ ~dry_run
            /\ AtAuthentication
            /\ pc' # "killed"
            /\ expiries' = expiries
            /\ \/ TokenExpired(token_user')
               \/ (pc # "start" /\ TokenExpired(token_admin')))
              => (/\ pc' = "aborted"
                  /\ token_admin' = token_admin
                  /\ IF TokenExpired(token_user')
                     THEN /\ token_user' = token_user
                          /\ api_call_count' = api_call_count + 1
                     ELSE api_call_count' =
                              api_call_count + ExchangesDue(token_user) + 1
                  /\ vstore' = vstore
                  /\ UNCHANGED <<fileVars, loopVars, enumVars, downloaded, ingested>>)
        /\ pc = "aborted"
              => (/\ vstore' = vstore
                  /\ UNCHANGED <<pc, api_call_count, tokenVars, fileVars, loopVars,
                                 enumVars, downloaded, ingested>>) ]_vars

\* the first authentication succeeded, the application token's exchange at
\* the site lookup was refused: two requests in all, no application token,
\* no drive listed, no log written
C22_Witness ==
    /\ pc = "aborted"
    /\ ~dry_run
    /\ token_user = "valid"
    /\ token_admin = "none"
    /\ api_call_count = 2
    /\ drives_to_process = << >>
    /\ downloaded = {}
    /\ ~processed_items_file.exists
    /\ ~processed_drives_file.exists
    /\ ~error_items_file.exists

\* the ids a caller may test a checkpoint log for
TestableIds == {"F1", "D1", "D2", "d1", "d2", None}

\* one step of a checkpoint log, from before to after: a log that does not
\* exist holds no id; mark_item_as_processed adds the marked id to the ids
\* that test as processed and changes the test of no other id (of no id at
\* all if the id was there); nothing but clear_processed_items_record
\* removes an id, and after it no id tests as processed
LogStepRight(before, after) ==
    /\ ~before.exists => \A id \in TestableIds : ~has_been_processed(before, id)
    /\ Len(Lines(after)) = Len(Lines(before)) + 1 =>
          LET marked == Lines(after)[Len(Lines(after))] IN
          /\ has_been_processed(after, marked)
          /\ \A id \in TestableIds \ {marked} :
                has_been_processed(after, id) <=> has_been_processed(before, id)
          /\ has_been_processed(before, marked) =>
                \A id \in TestableIds :
                    has_been_processed(after, id) <=> has_been_processed(before, id)
    /\ (\E id \in TestableIds :
            has_been_processed(before, id) /\ ~has_been_processed(after, id))
          => (/\ ~after.exists
              /\ \A id \in TestableIds : ~has_been_processed(after, id))

\* C23: for the processed-items log and the processed-drives log, whatever a
\* caller of the handler does: has_been_processed is true exactly of the ids
\* marked since the log was last cleared; a log that does not exist tests
\* every id as not processed, without an error; a second mark of an id
\* changes the test of no id; after clear_processed_items_record every id
\* tests as not processed.
C23_LogMembershipIsMarkedSinceClear ==
    [][ /\ LogStepRight(processed_items_file, processed_items_file')
        /\ LogStepRight(processed_drives_file, processed_drives_file')
        /\ (pc = "api" /\ processed_items_file.exists /\ ~processed_items_file'.exists)
              => \A id \in TestableIds : ~has_been_processed(processed_items_file', id) ]_vars

\* the folder F1 was marked twice in the processed-items log and the drive
\* d1 in the processed-drives log: F1 and d1 test as processed, D1 does not
C23_Witness ==
    /\ pc = "api"
    /\ Lines(processed_items_file) = << "F1", "F1" >>
    /\ has_been_processed(processed_items_file, "F1")
    /\ ~has_been_processed(processed_items_file, "D1")
    /\ has_been_processed(processed_drives_file, "d1")
    /\ ~has_been_processed(error_items_file, "F1")

\* the ids that have a record in the error log
ErroredItems == {Lines(error_items_file)[k] : k \in 1..Len(Lines(error_items_file))}

\* C24: in runs of main that start on whatever error log the runs before
\* left, every skip decision is a function of the processed logs alone:
\* get_item_content returns without a request exactly for an id in the
\* processed-items log, get_items_in_item_recursive returns without listing
\* exactly for a drive in the processed-drives log or a folder in the
\* processed-items log, whatever the error log holds; the orchestrator's marks
\* are the id of the item or drive at hand; and the error log itself is only
\* appended to, by get_item_content.
C24_ErrorLogNeverConsulted ==
    [][ /\ (pc = "item" /\ item_idx <= Len(items_to_process) /\ pc' \notin {"killed", "aborted"})
              => /\ (pc' = "after_fetch") <=> (items_to_process[item_idx].id \in MarkedItems)
                 /\ (pc' = "attempt") <=> (items_to_process[item_idx].id \notin MarkedItems)
        /\ (pc = "enum" /\ stack # << >> /\ stack[Len(stack)].phase = "call"
                /\ pc' \notin {"killed", "aborted"})
              => /\ (stack' = SubSeq(stack, 1, Len(stack) - 1))
                       <=> (\/ stack[Len(stack)].drive_id \in MarkedDrives
                            \/ stack[Len(stack)].item_id \in MarkedItems)
                 /\ (stack' # SubSeq(stack, 1, Len(stack) - 1))
                       => stack'[Len(stack')].phase = "request"
        /\ (pc = "mark" /\ pc' = "item")
              => processed_items_file' =
                     File(Append(Lines(processed_items_file), items_to_process[item_idx].id))
        /\ (pc = "drive_mark" /\ pc' = "clear")
              => processed_drives_file' =
                     File(Append(Lines(processed_drives_file), drives_to_process[drive_idx].id))
        /\ error_items_file' # error_items_file
              => (/\ pc = "response"
                  /\ error_items_file' =
                         File(Append(Lines(error_items_file), items_to_process[item_idx].id))) ]_vars

\* a run before left an error record for the item at hand and did not mark
\* it: this run has gone on to request its content, and the processed-drives
\* log holds the drive the orchestrator marked while the error log was not
\* empty
C24_Witness ==
    /\ run = 2
    /\ pc = "response"
    /\ CurrentItem.id \in ErroredItems
    /\ CurrentItem.id \notin MarkedItems
    /\ CurrentItem.id \in downloaded
    /\ MarkedDrives # {}

\* C25: when main exits after process_all_sharepoint_files_by_site_name has
\* returned or raised, save_temp_files_to_azure_storage has been called.
C25_PersistenceBeforeExit == pc = "exit" => temp_files_saved

\* the children of a folder as Graph lists them, page after page
ChildrenOf(drive_id, item_id) ==
    LET pages == RemotePages(drive_id, item_id)
        flat[n \in 0..Len(pages)] == IF n = 0 THEN << >> ELSE flat[n - 1] \o pages[n]
    IN  flat[Len(pages)]

\* the ids of the files under a folder, at any depth (the site's folders are
\* at most DepthOfSite deep)
DepthOfSite == 2
RECURSIVE FilesUnder(_, _, _)
FilesUnder(drive_id, item_id, depth) ==
    LET ch == ChildrenOf(drive_id, item_id) IN
    {ch[k].id : k \in {j \in 1..Len(ch) : ~ch[j].folder}}
      \cup (IF depth = 0 THEN {}
            ELSE UNION {FilesUnder(drive_id, ch[k].id, depth - 1) :
                           k \in {j \in 1..Len(ch) : ch[j].folder}})

\* the ids of the files of a drive whose extension is in the whitelist
WhitelistedFilesOf(drive_id) ==
    LET ch(i) == ChildrenOf(drive_id, i)
        all == {None} \cup ItemIds
    IN  {id \in FilesUnder(drive_id, None, DepthOfSite) :
            \E i \in all : \E k \in 1..Len(ch(i)) :
                /\ ch(i)[k].id = id
                /\ Splitext(ch(i)[k].name) \in white_list_file_extensions}

\* C26: when a run appends a drive's id to the processed-drives log, every
\* file of the drive with a whitelisted extension has been handed to
\* get_item_content (which, in a first run, requested its content), whatever
\* max_items is.
C26_DriveMarkedAfterAllItsFiles ==
    [][ processed_drives_file' # processed_drives_file
          => WhitelistedFilesOf(drives_to_process[drive_idx].id) \subseteq downloaded ]_vars

\* C27: when the item loop of a drive is over the orchestrator goes on to
\* append the drive's id to the processed-drives log, whatever the fetches of
\* its items returned; and no run requests the content of an item of a drive
\* whose id is in the processed-drives log, so an item whose fetch failed is
\* not fetched again by a run that starts on those logs.
C27_DriveMarkedDespiteFailures ==
    [][ /\ (pc = "item" /\ item_idx > Len(items_to_process) /\ pc' # "killed")
              => pc' = "drive_mark"
        /\ (pc = "drive_mark" /\ pc' # "killed")
              => (/\ pc' = "clear"
                  /\ processed_drives_file' =
                         File(Append(Lines(processed_drives_file),
                                     drives_to_process[drive_idx].id)))
        /\ (pc = "attempt" /\ pc' = "response")
              => items_to_process[item_idx].drive_id \notin MarkedDrives ]_vars

\* the fetch of bid.docx (E1) of drive d2 failed in the first run, which
\* marked d2 all the same; the second run listed d2 and ended without
\* requesting E1, of which the store holds nothing
C27_Witness ==
    /\ run = 2
    /\ pc = "done"
    /\ \E k \in 1..Len(drives_to_process) : drives_to_process[k].id = "d2"
    /\ "d2" \in MarkedDrives
    /\ "E1" \in ErroredItems
    /\ "E1" \notin downloaded
    /\ <<"E1", 1>> \notin vstore

\* the ids under a folder in depth-first pre-order: each child in listing
\* order, a folder followed at once by what is under it
RECURSIVE Preorder(_, _, _)
Preorder(drive_id, item_id, depth) ==
    LET ch == ChildrenOf(drive_id, item_id)
        f[n \in 0..Len(ch)] ==
            IF n = 0 THEN << >>
            ELSE f[n - 1] \o << ch[n].id >>
                    \o (IF ch[n].folder /\ depth > 0
                        THEN Preorder(drive_id, ch[n].id, depth - 1) ELSE << >>)
    IN  f[Len(ch)]

\* the place of an id in a sequence of distinct ids
IndexIn(seq, id) == CHOOSE n \in 1..Len(seq) : seq[n] = id

\* the list holds exactly the ids of the sequence and in its order
InOrderOf(list, seq) ==
    /\ {list[k].id : k \in 1..Len(list)} = {seq[n] : n \in 1..Len(seq)}
    /\ \A p, q \in 1..Len(list) :
          p < q => IndexIn(seq, list[p].id) <= IndexIn(seq, list[q].id)

\* C28: without a cap, a dry run or a processed drive or folder, a call of
\* get_items_in_item_recursive returns every item under its folder, each
\* folder before what is under it and all of that before the folder's next
\* sibling, siblings in listing order; and a folder's pages are requested
\* one after the other from the first, the next one exactly when the page
\* just iterated is not the last, after which the call returns.
C28_DepthFirstPreorderPaging ==
    [][ (/\ pc = "enum" /\ pc' = "enum"
         /\ stack # << >>
         /\ ~dry_run
         /\ max_items <= 0
         /\ MarkedDrives = {}
         /\ MarkedItems = {})
          => LET f == stack[Len(stack)]
                 pages == RemotePages(f.drive_id, f.item_id)
             IN
             \* the outermost call returns
             /\ (Len(stack) = 1 /\ stack' = << >>)
                   => InOrderOf(items_list',
                                Preorder(f.drive_id, f.item_id, DepthOfSite))
             \* the first request of a call is for the first page
             /\ f.phase = "call"
                   => (/\ Len(stack') = Len(stack)
                       /\ stack'[Len(stack')].phase = "request"
                       /\ stack'[Len(stack')].page = 1)
             \* a request does not move the cursor
             /\ f.phase = "request"
                   => (/\ Len(stack') = Len(stack)
                       /\ stack'[Len(stack')].page = f.page)
             \* the end of a page: the next page, or the end of the call
             /\ (f.phase = "iterate" /\ f.idx > Len(pages[f.page]))
                   => IF f.page < Len(pages)
                      THEN /\ Len(stack') = Len(stack)
                           /\ stack'[Len(stack')].phase = "request"
                           /\ stack'[Len(stack')].page = f.page + 1
                      ELSE stack' = SubSeq(stack, 1, Len(stack) - 1)
             \* a child: the cursor stays, a folder is entered at once
             /\ (f.phase = "iterate" /\ f.idx <= Len(pages[f.page]))
                   => (/\ stack'[Len(stack)].page = f.page
                       /\ stack'[Len(stack)].idx = f.idx + 1
                       /\ Len(stack') = Len(stack)
                                          + (IF pages[f.page][f.idx].folder THEN 1 ELSE 0)
                       /\ items_list'[Len(items_list')].id = pages[f.page][f.idx].id) ]_vars

\* the listing of drive d1 from its root has returned: folder F and what is
\* under it, then the rest of the first page, then the second page
C28_Witness ==
    /\ pc = "enum"
    /\ stack = << >>
    /\ ~dry_run
    /\ max_items <= 0
    /\ MarkedDrives = {}
    /\ MarkedItems = {}
    /\ [k \in 1..Len(items_list) |-> items_list[k].id]
          = << "F1", "F1", "D2", "D1", "D3", "P1" >>

\* the folder that lists an item among its children (None: the drive root)
ParentOf(drive_id, id) ==
    CHOOSE i \in {None} \cup ItemIds :
        \E k \in 1..Len(ChildrenOf(drive_id, i)) : ChildrenOf(drive_id, i)[k].id = id

\* C29: in a run of the orchestrator (which lists each drive from its root),
\* every item in the list get_items_in_item_recursive builds has the path "/" +
\* name if it is a child of the drive root, and otherwise the path of its
\* parent folder, as the list holds it, + "/" + name; no path has two
\* slashes in a row: doc.docx in root folder F is "/F/doc.docx", report.pdf
\* at the root is "/report.pdf".
C29_PathIsParentPathSlashName ==
    (pc = "enum" /\ ~dry_run) =>
        \A k \in 1..Len(items_list) :
            LET x == items_list[k]
                parent == ParentOf(x.drive_id, x.id)
            IN
            /\ parent = None => x.path = << "/", x.name >>
            /\ parent # None =>
                  \E j \in 1..Len(items_list) :
                      /\ items_list[j].id = parent
                      /\ x.path = items_list[j].path \o << "/", x.name >>
            /\ \A n \in 1..(Len(x.path) - 1) : ~(x.path[n] = "/" /\ x.path[n + 1] = "/")
            /\ x.path[Len(x.path)] = x.name
            /\ x.id = "D2" => x.path = << "/", "F", "/", "doc.docx" >>
            /\ x.id = "D1" => x.path = << "/", "report.pdf" >>

\* the listing of drive d1 holds folder F, doc.docx inside it and report.pdf
\* beside it
C29_Witness ==
    /\ pc = "enum"
    /\ stack = << >>
    /\ ~dry_run
    /\ \E k \in 1..Len(items_list) :
          items_list[k].id = "F1" /\ items_list[k].path = << "/", "F" >>
    /\ \E k \in 1..Len(items_list) :
          items_list[k].id = "D2" /\ items_list[k].path = << "/", "F", "/", "doc.docx" >>
    /\ \E k \in 1..Len(items_list) :
          items_list[k].id = "D1" /\ items_list[k].path = << "/", "report.pdf" >>

\* C30: when get_item_content returns, the file it staged under the item's
\* name is not in the working directory, whether the extraction gave a text,
\* gave an empty text or raised; the call leaves the directory as it found
\* it, and no staged file remains while the orchestrator is elsewhere.
C30_StagedFileReleased ==
    [][ /\ (pc = "response" /\ resp = "200" /\ pc' \notin {"response", "killed"})
              => (/\ pc' = "after_fetch"
                  /\ outcome' \in {"Text", "Empty", "ExtractionFailed"}
                  /\ items_to_process[item_idx].name \notin staged_files'
                  /\ staged_files' = staged_files)
        /\ pc' = "after_fetch"
              => items_to_process'[item_idx'].name \notin staged_files'
        /\ pc' \notin {"response", "killed"} => staged_files' = {} ]_vars

\* one item's text is in the store and the extraction of a later item has
\* raised: get_item_content has returned None and nothing is staged
C30_Witness ==
    /\ pc = "after_fetch"
    /\ outcome = "ExtractionFailed"
    /\ content = None
    /\ ingested # {}
    /\ CurrentItem.id \in downloaded
    /\ CurrentItem.name \notin staged_files

\* C32: when process_all_sharepoint_files_by_site_name returns normally, the
\* inserted-item count is the number of items whose chunks were in a flushed
\* batch, and the inserted-chunk count is the number of record identifiers
\* the flushes of the run returned (one for each chunk stored).
C32_ReportedCountsExact ==
    pc = "done" =>
        /\ inserted_item_count = Cardinality(ingested)
        /\ inserted_db_document_count = Cardinality(vstore)

====
